---- MODULE Spec2Model ----
(***************************************************************************)
(* State-machine model of linkedin-agent:                                  *)
(*   - the credential lifecycle (src/src/auth.ts) and the resilient        *)
(*     request executor withRetry (src/src/poster.ts);                     *)
(*   - the pagination controller autoScroll, the record extractor, the     *)
(*     run-scoped accumulator and the merge with the persisted collection  *)
(*     (src/src/scraper.ts).                                               *)
(***************************************************************************)
EXTENDS Integers, Sequences, FiniteSets, TLC

VARIABLES
    \* ---- auth.ts / poster.ts ----
    store,          \* the credentials file: [state, rec]
    now,            \* Math.floor(Date.now() / 1000)
    issued,         \* number of access tokens the token endpoint has issued
    pc,             \* position of the running mutating operation
    op,             \* "create" | "edit" | "delete" | "none"
    creds,          \* withRetry's local `creds`
    resp,           \* withRetry's local `resp`
    calls,          \* sequence of the underlying fn(creds) calls of this operation
    refreshes,      \* sequence of refreshAccessToken invocations of this operation
    result,         \* what the operation returned or threw
    opsDone,        \* number of finished operations
    \* ---- scraper.ts: autoScroll ----
    spc,            \* position inside autoScroll
    maxScrolls,     \* autoScroll's cap
    i,              \* loop index
    previousHeight,
    noChangeCount,
    heights,        \* sequence of the size measurements taken
    stopChecks,     \* number of shouldStop evaluations
    scrolls,        \* number of load-more (window.scrollTo) requests issued
    exitReason,     \* "none" | "limit" | "converged" | "cap"
    \* ---- scraper.ts: getLinkedInPosts ----
    postLimit,      \* options.limit (0: not set)
    allPosts,       \* the accumulator: a Map, as the sequence of its values in insertion order
    seen,           \* sequence of the payloads the response hook has processed
    file,           \* the persisted collection file of the run's key: [state, posts]
    newPosts,       \* the run's records handed to the merge
    returned,       \* the collection the last save step returned
    merges,         \* sequence of the collections written, one per merge
    rpc,            \* position of the synchronization run (getLinkedInPosts)
    profile,        \* options.profile: "none" | "valid" | "invalid"
    hooked,         \* the response hook is registered
    visited,        \* navigations to the content listing issued
    closes,         \* number of context.close() calls
    runError,       \* the error the run is raising, "" if none
    \* ---- auth.ts: authenticate ----
    apc,            \* position of the initial authorization
    listener,       \* the callback server: "none" | "unbound" | "open" | "closed"
    urlShown,       \* outcome of the present-URL action: "pending" | "ok" | "failed"
    authTokens,     \* the token exchange response authenticate holds
    auths,          \* authenticate calls made
    authError,      \* the error authenticate raised, "" if none
    \* ---- scraper.ts: extractPosts on its own ----
    payload,        \* the data extractPosts is given
    extracted,      \* what extractPosts returned
    epc             \* "ready" | "returned" | "raised"

authVars   == <<store, now, issued>>
posterVars == <<pc, op, creds, resp, calls, refreshes, result, opsDone>>
scrollVars == <<spc, maxScrolls, i, previousHeight, noChangeCount, heights,
                stopChecks, scrolls, exitReason>>
runVars    == <<postLimit, allPosts, seen, file, newPosts, returned, merges>>
syncVars   == <<rpc, profile, hooked, visited, closes, runError>>
loginVars  == <<apc, listener, urlShown, authTokens, auths, authError>>
extractVars == <<payload, extracted, epc>>
vars       == <<authVars, posterVars, scrollVars, runVars, syncVars, loginVars,
                extractVars>>

(***************************************************************************)
(* Bounds of the model                                                     *)
(***************************************************************************)
Now0     == 1000000      \* clock value of the initial state
MaxDelay == 1            \* seconds a token exchange may take
MaxTicks == 1            \* seconds the clock may advance between steps
MaxOps   == 2            \* mutating operations per behaviour
MaxCap   == 4            \* largest maxScrolls handed to autoScroll
MaxHeight == 4           \* largest document.body.scrollHeight measured
MaxResponses == 3        \* responses the hook sees in one run
MaxLimit == 2            \* largest options.limit
MaxMerges == 2           \* save steps per behaviour
MaxItems == 3            \* longest data.included extractPosts is given on its own
MaxAuths == 2            \* authenticate calls per behaviour
MaxGets == 2             \* direct getValidCredentials calls per behaviour

(***************************************************************************)
(* auth.ts                                                                 *)
(***************************************************************************)
OneDay          == 86400
DefaultLifetime == 5184000

NullCreds == [clientId |-> "", clientSecret |-> "", accessToken |-> 0,
              refreshToken |-> "", personId |-> "", expiresAt |-> 0]

NoFile == [state |-> "absent", rec |-> NullCreds]

\* loadCredentials: null when the file is missing or does not parse; whatever
\* JSON.parse yields is returned as it is ("partial": a JSON object that
\* lacks fields of a Credential Record)
Loadable(f) == f.state \in {"ok", "partial"}

loadCredentials(f) == IF Loadable(f) THEN f.rec ELSE NullCreds

\* saveCredentials: the file holds the record
saveCredentials(c) == [state |-> "ok", rec |-> c]

\* A token endpoint response: access_token (0: missing), refresh_token
\* ("": missing), expires_in (0: missing); an answer without access token is
\* an error answer and carries neither of the others
TokenResponses(n) ==
    {[access_token |-> 0, refresh_token |-> "", expires_in |-> 0]} \cup
    [access_token : {n}, refresh_token : {"", "rtNew"},
     expires_in : {0, 3600, OneDay}]

NoTokens == [access_token |-> 0, refresh_token |-> "", expires_in |-> 0]

\* tokens.expires_in || 5184000
LifetimeAlt(tokens) ==
    IF tokens.expires_in < OneDay THEN DefaultLifetime ELSE tokens.expires_in
Lifetime(tokens) == IF tokens.expires_in = 0 THEN DefaultLifetime ELSE tokens.expires_in

\* refreshAccessToken, the guard of line 191: no refresh token, no request
RefreshCanRequestAlt(c) == TRUE
RefreshCanRequest(c) == c.refreshToken # ""

\* refreshAccessToken, line 208: the response carries an access token
RefreshAcceptedAlt(tokens) == TRUE
RefreshAccepted(tokens) == tokens.access_token # 0

\* refreshAccessToken, lines 212-217: the updated record, at clock value t
RefreshedRecordAlt(c, tokens, t) ==
    [c EXCEPT !.accessToken = tokens.access_token,
              !.refreshToken = tokens.refresh_token,
              !.expiresAt = t + (IF tokens.expires_in = 0 THEN DefaultLifetime
                                 ELSE tokens.expires_in)]
RefreshedRecord(c, tokens, t) ==
    [c EXCEPT !.accessToken = tokens.access_token,
              !.refreshToken = IF tokens.refresh_token # "" THEN tokens.refresh_token
                               ELSE c.refreshToken,
              !.expiresAt = t + Lifetime(tokens)]

\* getValidCredentials, lines 231-232: refresh if expiring within one day
NeedsRefreshAlt(c, t) == c.expiresAt <= t + OneDay
NeedsRefresh(c, t) == c.expiresAt < t + OneDay


(***************************************************************************)
(* poster.ts                                                               *)
(***************************************************************************)
Statuses  == {199, 200, 299, 300, 401, 403}
Bodies    == {"body-a", "body-b"}
RestliIds == {"", "urn:li:share:7"}
Ops       == {"create", "edit", "delete"}
OptionsPostId == "urn:li:share:1"          \* options.postId / postId of edit and delete

NoResp   == [status |-> -1, body |-> "", restliId |-> ""]
NoError  == [msg |-> "", status |-> -1, body |-> ""]
NoResult == [kind |-> "none", success |-> FALSE, postId |-> "", error |-> NoError]

Thrown(msg) == [kind |-> "throw", success |-> FALSE, postId |-> "",
                error |-> [msg |-> msg, status |-> -1, body |-> ""]]

\* withRetry, line 68
IsUnauthorizedAlt(status) == status = 403
IsUnauthorized(status) == status = 401

\* withRetry, line 74
IsSuccessAlt(status) == status = 200
IsSuccess(status) == status >= 200 /\ status < 300

\* the success interpreters of postToLinkedIn, editLinkedInPost, deleteLinkedInPost
onSuccess(o, r) ==
    [kind |-> "return", success |-> TRUE,
     postId |-> IF o = "create" THEN r.restliId ELSE OptionsPostId,
     error |-> NoError]

\* withRetry, line 75: { success: false, error: `HTTP ${resp.status}: ${resp.body}` }
Failure(r) ==
    [kind |-> "return", success |-> FALSE, postId |-> "",
     error |-> [msg |-> "HTTP", status |-> r.status, body |-> r.body]]

\* withRetry, lines 74-75
InterpretAlt(o, r) == IF IsSuccess(r.status) THEN onSuccess(o, r)
                      ELSE [Failure(r) EXCEPT !.error.body = ""]
Interpret(o, r) == IF IsSuccess(r.status) THEN onSuccess(o, r) ELSE Failure(r)

\* withRetry, lines 68-72: where control goes after the first response ...
AfterFirstCallAlt(status) == IF status = 401 \/ status = 403 THEN "refresh" ELSE "finish"
AfterFirstCall(status) == IF IsUnauthorized(status) THEN "refresh" ELSE "finish"

\* ... and after the retried one: straight to lines 74-75, whatever the status
AfterRetryCallAlt(status) == IF IsUnauthorized(status) THEN "refresh" ELSE "finish"
AfterRetryCall(status) == "finish"

\* the log of refreshes keeps the token response of the latest one only
Logged(log, entry) ==
    Append([k \in 1..Len(log) |-> [log[k] EXCEPT !.response = NoTokens]], entry)

\* refreshAccessToken(c), invoked for `why` ("proactive" by getValidCredentials,
\* "forced" by withRetry); on success control continues at `next`
Refresh(c, why, next) ==
    IF ~RefreshCanRequest(c)
    THEN /\ refreshes' = Logged(refreshes, [why |-> why, requested |-> FALSE,
                                            ok |-> FALSE, response |-> NoTokens])
         /\ result' = Thrown("No refresh token available")
         /\ pc' = "thrown"
         /\ UNCHANGED <<store, now, issued, creds>>
    ELSE \E d \in 0..MaxDelay, tokens \in TokenResponses(issued + 1) :
         /\ now' = now + d
         /\ IF RefreshAccepted(tokens)
            THEN /\ store' = saveCredentials(RefreshedRecord(c, tokens, now'))
                 /\ creds' = RefreshedRecord(c, tokens, now')
                 /\ issued' = issued + 1
                 /\ refreshes' = Logged(refreshes, [why |-> why, requested |-> TRUE,
                                                    ok |-> TRUE, response |-> tokens])
                 /\ pc' = next
                 /\ UNCHANGED result
            ELSE /\ refreshes' = Logged(refreshes, [why |-> why, requested |-> TRUE,
                                                    ok |-> FALSE, response |-> tokens])
                 /\ result' = Thrown("Token refresh failed")
                 /\ pc' = "thrown"
                 /\ UNCHANGED <<store, issued, creds>>

\* a mutating operation is invoked: postToLinkedIn / editLinkedInPost / deleteLinkedInPost
StartOp ==
    /\ pc = "idle"
    /\ opsDone < MaxOps
    /\ \E o \in Ops : op' = o
    /\ pc' = "getValid"
    /\ creds' = NullCreds
    /\ resp' = NoResp
    /\ calls' = <<>>
    /\ refreshes' = <<>>
    /\ result' = NoResult
    /\ UNCHANGED <<authVars, opsDone, scrollVars, syncVars, loginVars, runVars>>
    /\ UNCHANGED extractVars

\* who gets the credentials: withRetry goes on to its first call, a direct
\* caller of getValidCredentials is done
AfterGetValid(o) == IF o = "getValid" THEN "done" ELSE "call1"

\* withRetry line 65: creds = await getValidCredentials()
GetValid ==
    /\ pc = "getValid"
    /\ IF ~Loadable(store)
       THEN /\ result' = Thrown("No credentials found")
            /\ pc' = "thrown"
            /\ UNCHANGED <<authVars, creds, refreshes>>
       ELSE IF NeedsRefresh(loadCredentials(store), now)
            THEN Refresh(loadCredentials(store), "proactive", AfterGetValid(op))
            ELSE /\ creds' = loadCredentials(store)
                 /\ pc' = AfterGetValid(op)
                 /\ UNCHANGED <<authVars, refreshes, result>>
    /\ UNCHANGED <<op, resp, calls, opsDone, scrollVars, syncVars, loginVars, runVars>>
    /\ UNCHANGED extractVars

\* one underlying fn(creds), answered with status s, body b and x-restli-id h
Call(s, b, h) ==
    /\ resp' = [status |-> s, body |-> b, restliId |-> h]
    /\ calls' = Append(calls, [token |-> creds.accessToken, status |-> s, body |-> b,
                               restliId |-> h])
    /\ UNCHANGED <<authVars, op, creds, refreshes, result, opsDone, scrollVars, syncVars, loginVars, runVars>>

\* withRetry line 66: resp = await fn(creds)
FirstCall ==
    /\ pc = "call1"
    /\ \E s \in Statuses, b \in Bodies, h \in RestliIds :
        /\ Call(s, b, h)
        /\ pc' = AfterFirstCall(s)
    /\ UNCHANGED extractVars

\* withRetry line 70: creds = await refreshAccessToken(creds)
ForcedRefresh ==
    /\ pc = "refresh"
    /\ Refresh(creds, "forced", "call2")
    /\ UNCHANGED <<op, resp, calls, opsDone, scrollVars, syncVars, loginVars, runVars>>
    /\ UNCHANGED extractVars

\* withRetry line 71: resp = await fn(creds)
RetryCall ==
    /\ pc = "call2"
    /\ \E s \in Statuses, b \in Bodies, h \in RestliIds :
        /\ Call(s, b, h)
        /\ pc' = AfterRetryCall(s)
    /\ UNCHANGED extractVars

\* withRetry lines 74-75
Finish ==
    /\ pc = "finish"
    /\ result' = Interpret(op, resp)
    /\ pc' = "done"
    /\ UNCHANGED <<authVars, op, creds, resp, calls, refreshes, opsDone,
                   scrollVars, syncVars, loginVars, runVars>>
    /\ UNCHANGED extractVars

\* the operation has returned or thrown; the process is free for the next one
EndOp ==
    /\ pc \in {"done", "thrown"}
    /\ pc' = "idle"
    /\ opsDone' = opsDone + 1
    /\ UNCHANGED <<authVars, op, creds, resp, calls, refreshes, result,
                   scrollVars, syncVars, loginVars, runVars>>
    /\ UNCHANGED extractVars

\* the clock advances between operations
Tick ==
    /\ pc = "idle"
    /\ now < Now0 + MaxTicks
    /\ now' = now + 1
    /\ UNCHANGED <<store, issued, posterVars, scrollVars, syncVars, loginVars, runVars>>
    /\ UNCHANGED extractVars


(***************************************************************************)
(* auth.ts: authenticate                                                   *)
(***************************************************************************)
ClientId     == "client"
ClientSecret == "secret"

\* the token endpoint's answers to the code exchange
ExchangeResponses(n) ==
    [access_token : {0, n}, refresh_token : {"", "rtNew"},
     expires_in : {0, 3600, OneDay}]

\* lines 157-159: the response carries an access token
ExchangeAccepted(t) == t.access_token # 0

\* lines 169-172: userInfo.sub || "" is not empty
HasPersonIdAlt(sub) == TRUE
HasPersonId(sub) == sub # ""

\* lines 176-184: the record authenticate assembles, at clock value t
AuthenticatedRecord(t, sub, clock) ==
    [clientId |-> ClientId, clientSecret |-> ClientSecret,
     accessToken |-> t.access_token, refreshToken |-> t.refresh_token,
     personId |-> sub, expiresAt |-> clock + Lifetime(t)]

\* authenticate is not running
AuthSettled == apc \in {"idle", "returned", "raised", "aborted"}

\* lines 91-138: the callback server is created and asked to listen on port
\* 3000; a listen error rejects the wait
AuthStart ==
    /\ AuthSettled /\ pc = "idle"
    /\ auths < MaxAuths
    /\ auths' = auths + 1
    /\ authTokens' = NoTokens
    /\ urlShown' = "pending"
    /\ \E bound \in BOOLEAN :
        IF bound
        THEN listener' = "open" /\ apc' = "waiting" /\ authError' = ""
        ELSE /\ listener' = "unbound"
             /\ apc' = "raised"
             /\ authError' = "Failed to start callback server"
    /\ UNCHANGED <<authVars, posterVars, scrollVars, runVars, syncVars>>
    /\ UNCHANGED extractVars

\* lines 114-133: the listen callback presents the URL.  A rejection of
\* openUrlFn is caught by nothing: the wait goes on with the server
\* listening, or the runtime ends the process on the unhandled rejection
PresentUrl ==
    /\ apc = "waiting" /\ urlShown = "pending"
    /\ \E shown \in BOOLEAN, terminated \in BOOLEAN :
        IF shown
        THEN urlShown' = "ok" /\ UNCHANGED apc
        ELSE /\ urlShown' = "failed"
             /\ apc' = IF terminated THEN "aborted" ELSE apc
    /\ UNCHANGED <<listener, authTokens, auths, authError, authVars, posterVars,
                   scrollVars, runVars, syncVars>>
    /\ UNCHANGED extractVars

\* lines 97-101: a request with ?code= arrives
CallbackCode ==
    /\ apc = "waiting" /\ listener = "open"
    /\ listener' = "closed"
    /\ apc' = "exchange"
    /\ UNCHANGED <<urlShown, authTokens, auths, authError, authVars, posterVars,
                   scrollVars, runVars, syncVars>>
    /\ UNCHANGED extractVars

\* lines 102-107: a request with ?error= arrives
CallbackError ==
    /\ apc = "waiting" /\ listener = "open"
    /\ listener' = "closed"
    /\ apc' = "raised"
    /\ authError' = "OAuth error"
    /\ UNCHANGED <<urlShown, authTokens, auths, authVars, posterVars,
                   scrollVars, runVars, syncVars>>
    /\ UNCHANGED extractVars

\* lines 142-160: the code is exchanged for tokens
Exchange ==
    /\ apc = "exchange"
    /\ \E t \in ExchangeResponses(issued + 1) :
        IF ExchangeAccepted(t)
        THEN /\ authTokens' = t
             /\ issued' = issued + 1
             /\ apc' = "userinfo"
             /\ UNCHANGED authError
        ELSE /\ apc' = "raised"
             /\ authError' = "Token exchange failed"
             /\ UNCHANGED <<authTokens, issued>>
    /\ UNCHANGED <<store, now, listener, urlShown, auths, posterVars, scrollVars,
                   runVars, syncVars>>
    /\ UNCHANGED extractVars

\* lines 163-187: the person id is fetched; the record is saved and returned
UserInfo ==
    /\ apc = "userinfo"
    /\ \E sub \in {"", "person"} :
        IF HasPersonId(sub)
        THEN /\ store' = saveCredentials(AuthenticatedRecord(authTokens, sub, now))
             /\ apc' = "returned"
             /\ UNCHANGED authError
        ELSE /\ apc' = "raised"
             /\ authError' = "Could not retrieve person ID"
             /\ UNCHANGED store
    /\ UNCHANGED <<now, issued, listener, urlShown, authTokens, auths, posterVars,
                   scrollVars, runVars, syncVars>>
    /\ UNCHANGED extractVars

\* index.ts exports getValidCredentials: it is called once authenticate is over
GetValidCall ==
    /\ AuthSettled /\ pc = "idle"
    /\ opsDone < MaxGets
    /\ op' = "getValid"
    /\ pc' = "getValid"
    /\ creds' = NullCreds
    /\ resp' = NoResp
    /\ calls' = <<>>
    /\ refreshes' = <<>>
    /\ result' = NoResult
    /\ UNCHANGED <<authVars, opsDone, scrollVars, syncVars, loginVars, runVars>>
    /\ UNCHANGED extractVars

(***************************************************************************)
(* scraper.ts: the Record Extractor                                        *)
(***************************************************************************)
CountsType == "com.linkedin.voyager.dash.feed.SocialActivityCounts"
UpdateType == "com.linkedin.voyager.dash.feed.Update"

\* `urn:li:activity:${activityId}`
ActivityUrn(activityId) == "urn:li:activity:" \o activityId

\* `https://www.linkedin.com/feed/update/${activityUrn}/`
PostUrl(activityUrn) == "https://www.linkedin.com/feed/update/" \o activityUrn \o "/"

\* dashUrn.match(/activity:(\d+)/) over the entity references of the model:
\* the digits captured, "" when the pattern does not match
ActivityMatch(dashUrn) ==
    CASE dashUrn = "urn:li:activity:1" -> "1"
      [] dashUrn = "urn:li:activity:2" -> "2"
      [] dashUrn = "urn:li:fsd_update:(urn:li:activity:1,MEMBER_SHARES)" -> "1"
      [] dashUrn = "urn:li:fsd_update:(urn:li:activity:2,MEMBER_SHARES)" -> "2"
      [] OTHER -> ""

\* one element of data.included; a field that is missing is "" or 0
Item(type, urn, likes, comments, shares, text, preDash, entity, published) ==
    [type |-> type, urn |-> urn, numLikes |-> likes, numComments |-> comments,
     numShares |-> shares, text |-> text, preDashEntityUrn |-> preDash,
     entityUrn |-> entity, subDescription |-> published]

CountsItem(urn, likes, comments, shares) ==
    Item(CountsType, urn, likes, comments, shares, "", "", "", "")

CommentaryItem(text, preDash, entity, published) ==
    Item(UpdateType, "", 0, 0, 0, text, preDash, entity, published)

ZeroCounts == [numLikes |-> 0, numComments |-> 0, numShares |-> 0]

\* extractPosts, line 33
IsCountsItem(item) == item.type = CountsType /\ item.urn # ""

\* extractPosts, lines 31-40 and 56: countsMap.get(urn) || zeros; a later counts
\* item of the same urn overwrites an earlier one
RECURSIVE CountsLookup(_, _, _)
CountsLookup(included, urn, k) ==
    IF k = 0 THEN ZeroCounts
    ELSE IF IsCountsItem(included[k]) /\ included[k].urn = urn
         THEN [numLikes |-> included[k].numLikes,
               numComments |-> included[k].numComments,
               numShares |-> included[k].numShares]
         ELSE CountsLookup(included, urn, k - 1)

\* the counts a record gets: the countsMap of its own payload only
CountsFor(included, urn) == CountsLookup(included, urn, Len(included))

\* extractPosts, line 48: item.preDashEntityUrn || item.entityUrn || ""
DashUrnAlt(item) == item.entityUrn
DashUrn(item) == IF item.preDashEntityUrn # "" THEN item.preDashEntityUrn ELSE item.entityUrn

\* an entity reference that is no string (a number, an object): calling
\* .match on it throws a TypeError
NotAString == "<not a string>"

\* extractPosts, lines 44-45: item?.commentary?.text?.text is truthy
HasCommentaryAlt(item) == TRUE
HasCommentary(item) == item.text # ""

\* extractPosts, line 49: dashUrn.match(...) throws
MatchThrows(item) == HasCommentary(item) /\ DashUrn(item) = NotAString

\* extractPosts, lines 44-50: the item yields a record
EmitsPost(item) == HasCommentary(item) /\ ActivityMatch(DashUrn(item)) # ""

\* extractPosts, lines 52-69
PostOf(included, item) ==
    LET activityUrn == ActivityUrn(ActivityMatch(DashUrn(item)))
        counts == CountsFor(included, activityUrn)
    IN [id |-> activityUrn, text |-> item.text, publishedAt |-> item.subDescription,
        numLikes |-> counts.numLikes, numComments |-> counts.numComments,
        numShares |-> counts.numShares, url |-> PostUrl(activityUrn)]

\* extractPosts, lines 43-73: the second loop from item k on; a throw leaves
\* the loop for the catch block, and the records pushed so far are returned
RECURSIVE ExtractFrom(_, _)
ExtractFrom(included, k) ==
    IF k > Len(included) THEN <<>>
    ELSE IF MatchThrows(included[k]) THEN <<>>
    ELSE IF EmitsPost(included[k])
         THEN <<PostOf(included, included[k])>> \o ExtractFrom(included, k + 1)
         ELSE ExtractFrom(included, k + 1)

\* extractPosts(data): data.included is an array, or it is not
extractPosts(data) == IF data.isArray THEN ExtractFrom(data.included, 1) ELSE <<>>

\* something is thrown inside the try block
ThrowsInside(data) ==
    data.isArray /\ \E k \in 1..Len(data.included) : MatchThrows(data.included[k])

\* lines 26 and 71-73: whatever is thrown inside is caught, so extractPosts
\* itself never throws
ExtractRaises(data) == FALSE

(***************************************************************************)
(* scraper.ts: the response hook and the accumulator                       *)
(***************************************************************************)
Ids(posts) == {posts[k].id : k \in 1..Len(posts)}

\* allPosts.has(id) / allPosts.get(id), allPosts being the sequence of the Map's values
Has(posts, id) == id \in Ids(posts)
Get(posts, id) == posts[CHOOSE k \in 1..Len(posts) : posts[k].id = id]

\* a hook that overwrites the record of a present identifier (last seen wins)
RECURSIVE FoldPostsAlt(_, _, _)
FoldPostsAlt(acc, posts, k) ==
    IF k > Len(posts) THEN acc
    ELSE IF posts[k].id # "" /\ posts[k].text # ""
         THEN FoldPostsAlt(
                 IF posts[k].id \in {acc[n].id : n \in 1..Len(acc)}
                 THEN [n \in 1..Len(acc) |->
                          IF acc[n].id = posts[k].id THEN posts[k] ELSE acc[n]]
                 ELSE Append(acc, posts[k]),
                 posts, k + 1)
         ELSE FoldPostsAlt(acc, posts, k + 1)

\* hook, lines 195-200: insert if the identifier is absent
RECURSIVE FoldPosts(_, _, _)
FoldPosts(acc, posts, k) ==
    IF k > Len(posts) THEN acc
    ELSE IF posts[k].id # "" /\ posts[k].text # "" /\ ~Has(acc, posts[k].id)
         THEN FoldPosts(Append(acc, posts[k]), posts, k + 1)
         ELSE FoldPosts(acc, posts, k + 1)

\* hook, lines 186-204: only JSON responses of the Voyager API are looked at
Intercepted(r) == r.voyager /\ r.json

OnResponseResult(acc, r) ==
    IF Intercepted(r) THEN FoldPosts(acc, extractPosts(r.data), 1) ELSE acc


\* the responses of the model
Counts1  == CountsItem("urn:li:activity:1", 5, 2, 1)
Counts2  == CountsItem("urn:li:activity:2", 9, 0, 3)
Text1    == CommentaryItem("hello", "urn:li:activity:1", "", "2w")
Text1b   == CommentaryItem("hello again", "",
                           "urn:li:fsd_update:(urn:li:activity:1,MEMBER_SHARES)", "3w")
Text2    == CommentaryItem("second", "", "urn:li:activity:2", "1d")
Reshare  == CommentaryItem("reshared", "", "urn:li:share:3", "1d")
NoText   == CommentaryItem("", "urn:li:activity:2", "", "1d")

Response(voyager, json, isArray, included) ==
    [voyager |-> voyager, json |-> json,
     data |-> [isArray |-> isArray, included |-> included]]

Responses ==
    { Response(TRUE, TRUE, TRUE, <<Counts1>>),
      Response(TRUE, TRUE, TRUE, <<Text1>>),
      Response(TRUE, TRUE, TRUE, <<Counts1, Text1>>),
      Response(TRUE, TRUE, TRUE, <<Text1b>>),
      Response(TRUE, TRUE, TRUE, <<Text2, Counts2>>),
      Response(TRUE, TRUE, TRUE, <<Counts2>>),
      Response(TRUE, TRUE, TRUE, <<Text2>>),
      Response(TRUE, TRUE, TRUE, <<Reshare, NoText>>),
      Response(TRUE, TRUE, FALSE, <<>>),
      Response(FALSE, TRUE, TRUE, <<Counts1, Text1>>),
      Response(TRUE, FALSE, TRUE, <<Counts2, Text2>>) }

\* the items extractPosts is tried on
Shadowed  == CommentaryItem("shadowed", "urn:li:share:3", "urn:li:activity:1", "1d")
Malformed == CommentaryItem("broken", NotAString, "", "1d")
ItemPool  == {Counts1, Counts2, Text1, Text1b, Text2, Reshare, NoText, Shadowed,
              Malformed}

RECURSIVE SeqsUpTo(_, _)
SeqsUpTo(S, n) ==
    IF n = 0 THEN {<<>>}
    ELSE SeqsUpTo(S, n - 1)
         \cup {Append(q, x) : q \in {r \in SeqsUpTo(S, n - 1) : Len(r) = n - 1}, x \in S}

\* data: `included` is an array of items, or it is missing or no array
Payloads ==
    {[isArray |-> TRUE, included |-> q] : q \in SeqsUpTo(ItemPool, MaxItems)}
    \cup {[isArray |-> FALSE, included |-> q] : q \in {<<>>, <<Text1>>, <<Counts1, Text2>>}}

NoPayload == [isArray |-> FALSE, included |-> <<>>]

\* extractPosts(data) is called and returns
Extract ==
    /\ epc = "ready"
    /\ extracted' = extractPosts(payload)
    /\ epc' = IF ExtractRaises(payload) THEN "raised" ELSE "returned"
    /\ UNCHANGED <<payload, authVars, posterVars, scrollVars, runVars, syncVars,
                   loginVars>>

\* page.on("response", ...): one response is delivered and processed
OnResponse ==
    /\ Len(seen) < MaxResponses
    /\ \E r \in Responses :
        /\ allPosts' = OnResponseResult(allPosts, r)
        /\ seen' = Append(seen, r)
    /\ UNCHANGED <<authVars, posterVars, syncVars, loginVars, scrollVars, postLimit, file, newPosts,
                   returned, merges>>
    /\ UNCHANGED extractVars

(***************************************************************************)
(* scraper.ts: autoScroll                                                  *)
(***************************************************************************)
NoChangeLimit == 3

\* line 132: i < maxScrolls
LoopContinuesAlt(n, cap) == n <= cap
LoopContinues(n, cap) == n < cap

\* line 142: noChangeCount >= 3
ConvergedAlt(count) == count > NoChangeLimit
Converged(count) == count >= NoChangeLimit

\* lines 140-148: noChangeCount++ on an equal size, else noChangeCount = 0
NextNoChangeAlt(count, current, previous) == IF current = previous THEN count + 1 ELSE count
NextNoChange(count, current, previous) == IF current = previous THEN count + 1 ELSE 0

\* a loop head that leaves out the check of shouldStop in the first iteration
LoopHeadAlt(cap, n, stop) ==
    /\ i' = n
    /\ IF ~(n < cap)
       THEN /\ spc' = "done"
            /\ exitReason' = "cap"
            /\ UNCHANGED stopChecks
       ELSE IF n = 0
            THEN spc' = "measuring" /\ UNCHANGED <<exitReason, stopChecks>>
            ELSE /\ stopChecks' = stopChecks + 1
                 /\ IF stop
                    THEN spc' = "done" /\ exitReason' = "limit"
                    ELSE spc' = "measuring" /\ UNCHANGED exitReason

\* lines 132-136 for index n: the loop condition, then shouldStop?.(), whose
\* value is `stop`
LoopHead(cap, n, stop) ==
    /\ i' = n
    /\ IF ~LoopContinues(n, cap)
       THEN /\ spc' = "done"
            /\ exitReason' = "cap"
            /\ UNCHANGED stopChecks
       ELSE /\ stopChecks' = stopChecks + 1
            /\ IF stop
               THEN spc' = "done" /\ exitReason' = "limit"
               ELSE spc' = "measuring" /\ UNCHANGED exitReason

\* autoScroll(page, maxScrolls, shouldStop) is called
ScrollStart ==
    /\ spc = "idle"
    /\ \E cap \in 1..MaxCap, stop \in BOOLEAN :
        /\ maxScrolls' = cap
        /\ LoopHead(cap, 0, stop)
    /\ previousHeight' = 0
    /\ noChangeCount' = 0
    /\ UNCHANGED <<heights, scrolls, authVars, posterVars, syncVars, loginVars, runVars>>
    /\ UNCHANGED extractVars

\* lines 138-151: compare the measurement, then request more content
Measure(currentHeight) ==
    /\ heights' = Append(heights, currentHeight)
    /\ noChangeCount' = NextNoChange(noChangeCount, currentHeight, previousHeight)
    /\ IF currentHeight = previousHeight /\ Converged(noChangeCount')
       THEN /\ spc' = "done"
            /\ exitReason' = "converged"
            /\ UNCHANGED <<previousHeight, scrolls>>
       ELSE /\ previousHeight' = currentHeight
            /\ scrolls' = scrolls + 1
            /\ spc' = "settling"
            /\ UNCHANGED exitReason
    /\ UNCHANGED <<maxScrolls, i, stopChecks>>

\* the measurement arrives
Measured ==
    /\ spc = "measuring"
    /\ \E currentHeight \in 0..MaxHeight : Measure(currentHeight)
    /\ UNCHANGED <<authVars, posterVars, syncVars, loginVars, runVars>>
    /\ UNCHANGED extractVars

\* line 152 and the loop's i++: the settle interval is over
Settled ==
    /\ spc = "settling"
    /\ \E stop \in BOOLEAN : LoopHead(maxScrolls, i + 1, stop)
    /\ UNCHANGED <<maxScrolls, previousHeight, noChangeCount, heights, scrolls,
                   authVars, posterVars, syncVars, loginVars, runVars>>
    /\ UNCHANGED extractVars

(***************************************************************************)
(* scraper.ts: getLinkedInPosts, saving the results                        *)
(***************************************************************************)
\* lines 223-225: Array.from(allPosts.values()).slice(0, postLimit)
TruncateAlt(posts, limit) ==
    IF limit # 0 /\ Len(posts) > limit
    THEN SubSeq(posts, Len(posts) - limit + 1, Len(posts)) ELSE posts
Truncate(posts, limit) ==
    IF limit # 0 /\ Len(posts) > limit THEN SubSeq(posts, 1, limit) ELSE posts

\* mergedMap.set(p.id, p): a present key keeps its place and takes the new value
MapSetAlt(m, p) == IF Has(m, p.id) THEN m ELSE Append(m, p)
MapSet(m, p) ==
    IF Has(m, p.id)
    THEN [k \in 1..Len(m) |-> IF m[k].id = p.id THEN p ELSE m[k]]
    ELSE Append(m, p)

RECURSIVE SetAll(_, _, _)
SetAll(m, posts, k) == IF k > Len(posts) THEN m ELSE SetAll(MapSet(m, posts[k]), posts, k + 1)

\* lines 234-237
MergeMapsAlt(existing, new) == existing \o new
MergeMaps(existing, new) == SetAll(SetAll(<<>>, existing, 1), new, 1)

\* lines 228-241: a file that is missing or cannot be read leaves merged = newPosts
MergedAlt(f, new) == new
MergedCorruptAlt(f, new) ==
    IF f.state = "ok" THEN MergeMaps(f.posts, new)
    ELSE IF f.state = "corrupt" THEN f.posts ELSE new
Merged(f, new) == IF f.state = "ok" THEN MergeMaps(f.posts, new) ELSE new

\* lines 223-243 and 263: truncate, merge, write, return
SaveResults ==
    /\ Len(merges) < MaxMerges
    /\ newPosts' = Truncate(allPosts, postLimit)
    /\ file' = [state |-> "ok", posts |-> Merged(file, newPosts')]
    /\ returned' = Merged(file, newPosts')
    /\ merges' = Append(merges, [new |-> newPosts', before |-> file,
                                 after |-> Merged(file, newPosts')])
    /\ UNCHANGED <<authVars, posterVars, syncVars, loginVars, scrollVars, postLimit, allPosts, seen>>
    /\ UNCHANGED extractVars


\* the records of the model, as extractPosts builds them
PostRec(activityId, text, likes) ==
    [id |-> ActivityUrn(activityId), text |-> text, publishedAt |-> "2w",
     numLikes |-> likes, numComments |-> 0, numShares |-> 0,
     url |-> PostUrl(ActivityUrn(activityId))]

Posts == {PostRec("1", "hello", 5), PostRec("1", "hello", 9),
          PostRec("2", "second", 0), PostRec("2", "second", 9)}

\* what a run's accumulator may hold at the end: no identifier twice
Runs == {<<>>} \cup {<<p>> : p \in Posts}
        \cup {pq \in Posts \X Posts : pq[1].id # pq[2].id}

NoPostsFile == [state |-> "absent", posts |-> <<>>]

\* the collection file of the key: missing, unreadable, or as a run wrote it
Files == {NoPostsFile, [state |-> "corrupt", posts |-> <<>>]}
         \cup {[state |-> "ok", posts |-> run] : run \in Runs}

\* a new run of the same key has filled its accumulator
NextRun ==
    /\ merges # <<>>
    /\ Len(merges) < MaxMerges
    /\ \E run \in Runs : allPosts' = run /\ allPosts' # allPosts
    /\ UNCHANGED <<authVars, posterVars, syncVars, loginVars, scrollVars, postLimit, seen, file, newPosts,
                   returned, merges>>
    /\ UNCHANGED extractVars

(***************************************************************************)
(* scraper.ts: getLinkedInPosts, the whole synchronization run             *)
(***************************************************************************)
CorruptPostsFile == [state |-> "corrupt", posts |-> <<>>]

\* the inputs of a run
Profiles     == {"none", "valid", "invalid"}
RunCaps      == {1, 3}
RunHeights   == {0, 1}
RunResponses ==
    { Response(TRUE, TRUE, TRUE, <<Counts1, Text1>>),
      Response(TRUE, TRUE, TRUE, <<Counts2, Text2>>),
      Response(TRUE, TRUE, TRUE, <<Text1b>>),
      Response(FALSE, TRUE, TRUE, <<Counts1, Text1>>) }

\* line 217: postLimit ? () => allPosts.size >= postLimit : undefined
ShouldStop == postLimit # 0 /\ Len(allPosts) >= postLimit

\* lines 177-179: options.profile ? extractUsernameFromUrl(options.profile)
\* : await getProfileUsername(page); either throws when it finds no username
ResolvedAlt(prof, detected) == prof # "none" \/ detected
Resolved(prof, detected) == prof = "valid" \/ (prof = "none" /\ detected)

\* lines 264-266: which paths reach `finally`
LeavesThroughFinallyAlt(position) == position \in {"draining"}
LeavesThroughFinally(position) ==
    position \in {"login", "resolve", "navigating", "scrolling", "draining"}

\* an error is thrown at `position`: inside the try block the run goes on to
\* `finally`, before it the error leaves getLinkedInPosts at once
Throw(position, error) ==
    /\ rpc' = IF LeavesThroughFinally(position) THEN "closing" ELSE "raised"
    /\ runError' = error

\* lines 163-170: the options are read, the output directory is made and the
\* browser context is launched
RunStart ==
    /\ rpc = "idle"
    /\ \E limit \in 0..MaxLimit, cap \in RunCaps, prof \in Profiles, launched \in BOOLEAN :
        /\ postLimit' = limit
        /\ maxScrolls' = cap
        /\ profile' = prof
        /\ IF launched
           THEN rpc' = "login" /\ UNCHANGED runError
           ELSE Throw("launch", "launch")
    /\ UNCHANGED <<hooked, visited, closes, authVars, posterVars, loginVars,
                   spc, i, previousHeight, noChangeCount, heights, stopChecks,
                   scrolls, exitReason, allPosts, seen, file, newPosts, returned,
                   merges>>
    /\ UNCHANGED extractVars

\* line 174: await ensureLoggedIn(page)
RunLogin ==
    /\ rpc = "login"
    /\ \E loggedIn \in BOOLEAN :
        IF loggedIn THEN rpc' = "resolve" /\ UNCHANGED runError
        ELSE Throw("login", "login")
    /\ UNCHANGED <<profile, hooked, visited, closes, authVars, posterVars, loginVars,
                   scrollVars, runVars>>
    /\ UNCHANGED extractVars

\* lines 177-211: the username is resolved (from options.profile, else from
\* the session); then the accumulator is made, the hook is registered and
\* the activity page is requested
RunResolve ==
    /\ rpc = "resolve"
    /\ \E detected \in BOOLEAN :
        IF Resolved(profile, detected)
        THEN /\ allPosts' = <<>>
             /\ hooked' = TRUE
             /\ visited' = visited + 1
             /\ rpc' = "navigating"
             /\ UNCHANGED runError
        ELSE /\ Throw("resolve", "username")
             /\ UNCHANGED <<allPosts, hooked, visited>>
    /\ UNCHANGED <<profile, closes, authVars, posterVars, loginVars, scrollVars,
                   postLimit, seen, file, newPosts, returned, merges>>
    /\ UNCHANGED extractVars

\* lines 211-217: page.goto settles; on success autoScroll is entered
RunNavigated ==
    /\ rpc = "navigating"
    /\ \E loaded \in BOOLEAN :
        IF loaded
        THEN /\ rpc' = "scrolling"
             /\ LoopHead(maxScrolls, 0, ShouldStop)
             /\ previousHeight' = 0
             /\ noChangeCount' = 0
             /\ UNCHANGED runError
        ELSE /\ Throw("navigating", "navigation")
             /\ UNCHANGED <<spc, i, previousHeight, noChangeCount, stopChecks, exitReason>>
    /\ UNCHANGED <<profile, hooked, visited, closes, maxScrolls, heights, scrolls,
                   authVars, posterVars, loginVars, runVars>>
    /\ UNCHANGED extractVars

\* autoScroll inside the run: a measurement arrives
RunMeasured ==
    /\ rpc = "scrolling" /\ spc = "measuring"
    /\ \E currentHeight \in RunHeights : Measure(currentHeight)
    /\ UNCHANGED <<authVars, posterVars, syncVars, loginVars, runVars>>
    /\ UNCHANGED extractVars

\* autoScroll inside the run: the settle interval is over
RunSettled ==
    /\ rpc = "scrolling" /\ spc = "settling"
    /\ LoopHead(maxScrolls, i + 1, ShouldStop)
    /\ UNCHANGED <<maxScrolls, previousHeight, noChangeCount, heights, scrolls,
                   authVars, posterVars, syncVars, loginVars, runVars>>
    /\ UNCHANGED extractVars

\* lines 217-220: autoScroll has returned; the drain interval starts
RunDrain ==
    /\ rpc = "scrolling" /\ spc = "done"
    /\ rpc' = "draining"
    /\ UNCHANGED <<profile, hooked, visited, closes, runError, authVars, posterVars,
                   loginVars, scrollVars, runVars>>
    /\ UNCHANGED extractVars

\* lines 185-206 inside the run: a response is delivered while the page
\* lives, which it does until the context is closed
RunResponse ==
    /\ hooked /\ rpc \in {"navigating", "scrolling", "draining", "closing"}
    /\ Len(seen) < MaxResponses
    /\ \E r \in RunResponses :
        /\ allPosts' = OnResponseResult(allPosts, r)
        /\ seen' = Append(seen, r)
    /\ UNCHANGED <<authVars, posterVars, syncVars, loginVars, scrollVars, postLimit,
                   file, newPosts, returned, merges>>
    /\ UNCHANGED extractVars

\* lines 223-263: the drain interval is over; truncate, merge, write, return
RunSave ==
    /\ rpc = "draining"
    /\ newPosts' = Truncate(allPosts, postLimit)
    /\ \E written \in BOOLEAN :
        IF written
        THEN /\ file' = [state |-> "ok", posts |-> Merged(file, newPosts')]
             /\ returned' = Merged(file, newPosts')
             /\ merges' = Append(merges, [new |-> newPosts', before |-> file,
                                          after |-> Merged(file, newPosts')])
             /\ rpc' = "closing"
             /\ UNCHANGED runError
        ELSE /\ file' \in {file, CorruptPostsFile}
             /\ Throw("draining", "write")
             /\ UNCHANGED <<returned, merges>>
    /\ UNCHANGED <<profile, hooked, visited, closes, authVars, posterVars, loginVars,
                   scrollVars, postLimit, allPosts, seen>>
    /\ UNCHANGED extractVars

\* lines 264-266: finally { await context.close() }, then the run returns
\* or re-raises
RunClose ==
    /\ rpc = "closing"
    /\ closes' = closes + 1
    /\ rpc' = IF runError = "" THEN "returned" ELSE "raised"
    /\ UNCHANGED <<profile, hooked, visited, runError, authVars, posterVars,
                   loginVars, scrollVars, runVars>>
    /\ UNCHANGED extractVars

(***************************************************************************)
(* Initial states and specifications                                       *)
(***************************************************************************)
StoredRecord(refreshToken, expiresAt) ==
    [clientId |-> "client", clientSecret |-> "secret", accessToken |-> 0,
     refreshToken |-> refreshToken, personId |-> "person", expiresAt |-> expiresAt]

\* a file that parses but holds no personId
PartialFile ==
    [state |-> "partial",
     rec |-> [StoredRecord("rt0", Now0 + DefaultLifetime) EXCEPT !.personId = ""]]

\* the credentials file as earlier commands, or the user, left it
Stores ==
    {NoFile, [state |-> "corrupt", rec |-> NullCreds], PartialFile} \cup
    {saveCredentials(StoredRecord(rt, e)) :
        rt \in {"", "rt0"},
        e \in {Now0 - 1, Now0 + OneDay, Now0 + OneDay + 1, Now0 + DefaultLifetime}}

AuthIdle   == store = NoFile /\ now = Now0 /\ issued = 0
PosterIdle == /\ pc = "idle" /\ op = "none" /\ creds = NullCreds /\ resp = NoResp
              /\ calls = <<>> /\ refreshes = <<>> /\ result = NoResult /\ opsDone = 0
ScrollIdle == /\ spc = "idle" /\ maxScrolls = 0 /\ i = 0 /\ previousHeight = 0
              /\ noChangeCount = 0 /\ heights = <<>> /\ stopChecks = 0 /\ scrolls = 0
              /\ exitReason = "none"
RunIdle    == /\ postLimit = 0 /\ allPosts = <<>> /\ seen = <<>>
              /\ file = NoPostsFile /\ newPosts = <<>> /\ returned = <<>>
              /\ merges = <<>>

\* the Record Extractor on its own
ExtractIdle == payload = NoPayload /\ extracted = <<>> /\ epc = "idle"

SyncIdle   == /\ rpc = "idle" /\ profile = "none" /\ hooked = FALSE /\ visited = 0
              /\ closes = 0 /\ runError = ""
LoginIdle  == /\ apc = "idle" /\ listener = "none" /\ urlShown = "pending"
              /\ authTokens = NoTokens /\ auths = 0 /\ authError = ""

\* the mutating operations and the credential lifecycle
InitPoster ==
    /\ store \in Stores /\ now = Now0 /\ issued = 0
    /\ PosterIdle /\ ScrollIdle /\ RunIdle /\ SyncIdle /\ LoginIdle /\ ExtractIdle

NextPoster == StartOp \/ GetValid \/ FirstCall \/ ForcedRefresh \/ RetryCall
                \/ Finish \/ EndOp \/ Tick

SpecPoster == InitPoster /\ [][NextPoster]_vars

\* the Pagination Controller
InitScroll == AuthIdle /\ PosterIdle /\ ScrollIdle /\ RunIdle /\ SyncIdle /\ LoginIdle /\ ExtractIdle

NextScroll == ScrollStart \/ Measured \/ Settled

SpecScroll == InitScroll /\ [][NextScroll]_vars

\* every step of autoScroll is the program's own: none is postponed forever
SpecScrollFair == SpecScroll /\ WF_vars(NextScroll)

\* the response hook filling the accumulator of one run
InitHook == AuthIdle /\ PosterIdle /\ ScrollIdle /\ RunIdle /\ SyncIdle /\ LoginIdle /\ ExtractIdle

NextHook == OnResponse

SpecHook == InitHook /\ [][NextHook]_vars

\* the save step of successive runs of one (identity, day) key
InitMerge ==
    /\ AuthIdle /\ PosterIdle /\ ScrollIdle /\ SyncIdle /\ LoginIdle /\ ExtractIdle
    /\ postLimit \in 0..MaxLimit
    /\ allPosts \in Runs
    /\ file \in Files
    /\ seen = <<>> /\ newPosts = <<>> /\ returned = <<>> /\ merges = <<>>

NextMerge == SaveResults \/ NextRun

SpecMerge == InitMerge /\ [][NextMerge]_vars

\* one synchronization run
RunFiles == {NoPostsFile, CorruptPostsFile,
             [state |-> "ok", posts |-> <<PostRec("2", "second", 0)>>]}
InitRun ==
    /\ AuthIdle /\ PosterIdle /\ ScrollIdle /\ SyncIdle /\ LoginIdle /\ ExtractIdle
    /\ postLimit = 0 /\ allPosts = <<>> /\ seen = <<>>
    /\ file \in RunFiles
    /\ newPosts = <<>> /\ returned = <<>> /\ merges = <<>>
NextRunSteps ==
    \/ RunStart \/ RunLogin \/ RunResolve \/ RunNavigated \/ RunMeasured
    \/ RunSettled \/ RunDrain \/ RunResponse \/ RunSave \/ RunClose
SpecRun == InitRun /\ [][NextRunSteps]_vars

\* initial authorization, then the commands that use the credentials
InitAuth ==
    /\ AuthIdle /\ PosterIdle /\ ScrollIdle /\ RunIdle /\ SyncIdle /\ LoginIdle /\ ExtractIdle
NextAuth ==
    \/ AuthStart \/ PresentUrl \/ CallbackCode \/ CallbackError \/ Exchange
    \/ UserInfo
    \/ GetValidCall \/ GetValid \/ EndOp
SpecAuth == InitAuth /\ [][NextAuth]_vars

InitExtract ==
    /\ AuthIdle /\ PosterIdle /\ ScrollIdle /\ RunIdle /\ SyncIdle /\ LoginIdle
    /\ payload \in Payloads /\ extracted = <<>> /\ epc = "ready"
NextExtract == Extract
SpecExtract == InitExtract /\ [][NextExtract]_vars

Next == NextPoster \/ NextScroll \/ NextHook \/ NextMerge \/ NextRunSteps \/ NextAuth
        \/ NextExtract

Spec == InitPoster /\ [][Next]_vars


(***************************************************************************)
(* The Resilient Request Executor and Get-valid (SpecPoster)               *)
(***************************************************************************)
Forced == {k \in 1..Len(refreshes) : refreshes[k].why = "forced"}
Proactive == {k \in 1..Len(refreshes) : refreshes[k].why = "proactive"}

\* the operation has returned and its calls were 401, then a 2xx status
Returned401Then2xx ==
    /\ pc = "done"
    /\ Len(calls) >= 2
    /\ calls[1].status = 401
    /\ calls[2].status >= 200 /\ calls[2].status <= 299

SuccessOfSecond ==
    /\ result.kind = "return"
    /\ result.success
    /\ result.postId = IF op = "create" THEN calls[2].restliId ELSE "urn:li:share:1"
    /\ result.error = NoError

\* C1 as stated: a 401 then a 2xx means exactly two calls, exactly one token
\* refresh in total, and the success interpretation of the second response.
C1_OneRefreshInTotal ==
    Returned401Then2xx =>
        /\ Len(calls) = 2
        /\ Len(refreshes) = 1
        /\ SuccessOfSecond

\* C1 amended: a 401 then a 2xx means exactly two calls and exactly one forced
\* refresh; Get-valid may have refreshed once more before the first call, so
\* the total is one or two; the result is the success interpretation of the
\* second response.
C1_OneForcedRefresh ==
    Returned401Then2xx =>
        /\ Len(calls) = 2
        /\ Cardinality(Forced) = 1
        /\ Len(refreshes) = 1 + Cardinality(Proactive)
        /\ Cardinality(Proactive) <= 1
        /\ \A k \in Proactive : k = 1
        /\ SuccessOfSecond

C1_Witness ==
    /\ Returned401Then2xx
    /\ Len(refreshes) = 2
    /\ calls[2].status = 299
    /\ calls[2].token # calls[1].token

\* the operation has returned and its first call got a non-2xx status other than 401
ReturnedOtherFailure ==
    /\ pc = "done"
    /\ Len(calls) >= 1
    /\ calls[1].status # 401
    /\ ~(calls[1].status >= 200 /\ calls[1].status <= 299)

FailureOf(k) ==
    /\ result.kind = "return"
    /\ ~result.success
    /\ result.error.status = calls[k].status
    /\ result.error.body = calls[k].body

\* C2 as stated: a non-2xx status other than 401 means exactly one call, no
\* refresh at all, and a failure carrying the status and the body.
C2_NoRefreshAtAll ==
    ReturnedOtherFailure =>
        /\ Len(calls) = 1
        /\ refreshes = <<>>
        /\ FailureOf(1)

\* C2 amended: a non-2xx status other than 401 means exactly one call, no forced
\* refresh and no retry (the one refresh possible is Get-valid's, before the
\* call), and a failure carrying the status and the body verbatim.
C2_NoForcedRefresh ==
    ReturnedOtherFailure =>
        /\ Len(calls) = 1
        /\ Forced = {}
        /\ Len(refreshes) <= 1
        /\ FailureOf(1)

C2_Witness ==
    /\ ReturnedOtherFailure
    /\ calls[1].status = 403
    /\ Len(refreshes) = 1
    /\ result.error.body = "body-b"

\* C3: whatever the statuses, one operation makes at most two underlying calls.
C3_AtMostTwoCalls == Len(calls) <= 2

C3_Witness ==
    /\ pc = "done"
    /\ Len(calls) = 2
    /\ calls[2].status = 403

\* C4: a 401 answered by a second 401 ends the operation: a failure carrying 401
\* and the second body, one forced refresh only, no third call.
C4_Second401Terminal ==
    (Len(calls) >= 2 /\ calls[1].status = 401 /\ calls[2].status = 401) =>
        /\ Len(calls) = 2
        /\ Cardinality(Forced) = 1
        /\ pc \in {"finish", "done", "idle"}
        /\ pc # "finish" => FailureOf(2)

C4_Witness ==
    /\ pc = "done"
    /\ Len(calls) = 2
    /\ calls[1].status = 401 /\ calls[2].status = 401
    /\ calls[1].body # calls[2].body
    /\ result.error.body = calls[2].body

\* C5: Get-valid, with a record stored, refreshes if and only if the stored
\* expiry is less than 86400 s after the current time; otherwise it makes no
\* refresh, leaves the file alone and returns the stored record. Without a
\* record it fails fatally.
C5_GetValid ==
    [][pc = "getValid" =>
        IF store.state \in {"absent", "corrupt"}
        THEN /\ pc' = "thrown"
             /\ result'.kind = "throw"
             /\ refreshes' = refreshes
             /\ store' = store
        ELSE IF store.rec.expiresAt < now + 86400
             THEN /\ Len(refreshes') = Len(refreshes) + 1
                  /\ refreshes'[Len(refreshes')].why = "proactive"
             ELSE /\ refreshes' = refreshes
                  /\ store' = store
                  /\ creds' = store.rec
                  /\ pc' = "call1"]_vars

C5_Witness ==
    /\ pc = "call1"
    /\ refreshes = <<>>
    /\ store.state = "ok"
    /\ creds = store.rec
    /\ creds.expiresAt = now + 86400


(***************************************************************************)
(* The merge with the persisted collection (SpecMerge)                     *)
(***************************************************************************)
\* C6: merging the same run's records twice into the collection of the key
\* leaves what merging them once left: merge(merge(E, N), N) = merge(E, N).
C6_MergeIdempotent ==
    \A k \in 2..Len(merges) :
        merges[k].new = merges[k - 1].new =>
            /\ merges[k].before.posts = merges[k - 1].after
            /\ merges[k].after = merges[k - 1].after
            /\ k = Len(merges) => file.posts = merges[k - 1].after

C6_Witness ==
    /\ Len(merges) = 2
    /\ merges[2].new = merges[1].new
    /\ merges[1].before.state = "ok"
    /\ Ids(merges[1].before.posts) \cap Ids(merges[1].new) # {}
    /\ Ids(merges[1].before.posts) \ Ids(merges[1].new) # {}
    /\ merges[1].after # merges[1].before.posts

\* C7: with a readable prior collection E, the identifiers persisted are those
\* of E and of the new records N together, and an identifier of both has N's
\* record.
C7_UnionNewWins ==
    \A k \in 1..Len(merges) :
        merges[k].before.state = "ok" =>
            LET E == merges[k].before.posts
                N == merges[k].new
                M == merges[k].after
            IN /\ Ids(M) = Ids(E) \cup Ids(N)
               /\ Len(M) = Cardinality(Ids(M))
               /\ \A id \in Ids(N) : Get(M, id) = Get(N, id)
               /\ \A id \in Ids(E) \ Ids(N) : Get(M, id) = Get(E, id)
               /\ k = Len(merges) => file = [state |-> "ok", posts |-> M]

C7_Witness ==
    /\ Len(merges) = 1
    /\ merges[1].before = [state |-> "ok", posts |-> <<PostRec("1", "hello", 5)>>]
    /\ merges[1].new = <<PostRec("1", "hello", 9), PostRec("2", "second", 0)>>
    /\ file.posts = <<PostRec("1", "hello", 9), PostRec("2", "second", 0)>>

(***************************************************************************)
(* The Pagination Controller (SpecScroll, SpecScrollFair)                  *)
(***************************************************************************)
\* C8: whatever the sizes measured and the target predicate, autoScroll ends,
\* after at most maxScrolls iterations and at most maxScrolls load-more requests.
C8_TerminatesWithinCap ==
    /\ [](/\ scrolls <= maxScrolls
          /\ Len(heights) <= maxScrolls
          /\ i <= maxScrolls
          /\ spc \in {"measuring", "settling"} => i < maxScrolls)
    /\ <>(spc = "done")

C8_Witness ==
    /\ spc = "done"
    /\ exitReason = "cap"
    /\ maxScrolls >= 3
    /\ scrolls = maxScrolls
    /\ Len(heights) = maxScrolls
    /\ \A k \in 1..(Len(heights) - 1) : heights[k] < heights[k + 1]

\* the last n measurements, the initial previousHeight 0 in front, are n equal sizes
EqualTail(h, n) ==
    /\ Len(h) >= n
    /\ \A k \in (Len(h) - n + 1)..Len(h) : h[k] = h[Len(h)]

\* C9 as stated: at the third of three consecutive equal measurements the
\* controller has terminated.
C9_StopsAtThirdEqual == EqualTail(heights, 3) => spc = "done"

\* C9 amended: the controller terminates for convergence at the third consecutive
\* measurement that equals the one before it (the size before the first being
\* 0): at the fourth of four equal measurements, or at the third when the sizes
\* are 0 from the start; it issues no load-more request after that measurement.
C9_StopsAtThirdUnchanged ==
    /\ EqualTail(<<0>> \o heights, 4) =>
          /\ spc = "done"
          /\ exitReason = "converged"
          /\ scrolls = Len(heights) - 1
    /\ exitReason = "converged" => EqualTail(<<0>> \o heights, 4)

C9_Witness ==
    /\ exitReason = "converged"
    /\ Len(heights) = 4
    /\ heights[1] # 0
    /\ scrolls = 3

\* C22: the target predicate is evaluated once per iteration, at its start,
\* before the size is measured and before more content is requested; in the
\* first iteration in which it is true autoScroll returns without a further
\* load-more request (without any, when that is the first iteration).
C22_CheckedFirstEachIteration ==
    /\ spc = "measuring" =>
            (stopChecks = i + 1 /\ Len(heights) = i /\ scrolls = i)
    /\ spc = "settling" =>
            (stopChecks = i + 1 /\ Len(heights) = i + 1 /\ scrolls = i + 1)
    /\ exitReason = "limit" =>
            /\ spc = "done"
            /\ stopChecks = i + 1 /\ Len(heights) = i /\ scrolls = i
    /\ exitReason \in {"cap", "converged"} => stopChecks = Len(heights)

C22_Witness ==
    /\ exitReason = "limit" /\ spc = "done"
    /\ i = 2 /\ stopChecks = 3 /\ scrolls = 2 /\ Len(heights) = 2

\* C23: a measurement equal to the one before it (to 0 for the first)
\* increments noChangeCount and any other resets it to 0; autoScroll returns
\* for convergence on the measurement that takes the counter to 3, and only
\* then.
C23_CounterAndConvergence ==
    /\ [](noChangeCount <= 3 /\ (exitReason = "converged" => noChangeCount = 3))
    /\ [][Len(heights') = Len(heights) + 1 =>
            LET prev == IF heights = <<>> THEN 0 ELSE heights[Len(heights)]
                cur  == heights'[Len(heights')]
            IN  /\ cur = prev => noChangeCount' = noChangeCount + 1
                /\ cur # prev => noChangeCount' = 0
                /\ (spc' = "done" /\ exitReason' = "converged") <=> noChangeCount' = 3
                /\ noChangeCount' # 3 => spc' = "settling"]_vars

C23_Witness ==
    /\ Len(heights) = 3 /\ heights[1] = 0 /\ heights[2] = 0 /\ heights[3] # 0
    /\ noChangeCount = 0 /\ spc = "settling"

(***************************************************************************)
(* The accumulator (SpecHook)                                              *)
(***************************************************************************)
Items(r) == {r.data.included[k] : k \in 1..Len(r.data.included)}

\* the counts items and the commentary items of activity a in an intercepted payload
CountsOf(r, a) ==
    IF r.voyager /\ r.json /\ r.data.isArray
    THEN {it \in Items(r) : it.type = CountsType /\ it.urn = "urn:li:activity:" \o a}
    ELSE {}

CommentaryOf(r, a) ==
    IF r.voyager /\ r.json /\ r.data.isArray
    THEN {it \in Items(r) : it.text # "" /\ ActivityMatch(DashUrn(it)) = a}
    ELSE {}

RecordsOf(a) == {k \in 1..Len(allPosts) : allPosts[k].id = "urn:li:activity:" \o a}

\* C10: of two payloads of a run, in either order, one with the counts item of
\* activity A and the other with its commentary item, the accumulator keeps
\* exactly one record for A, holding A's text and the counts of the counts item.
C10_CombinesAcrossPayloads ==
    \A a \in {"1", "2"} : \A j, k \in 1..Len(seen) :
        ( /\ Len(seen) = 2 /\ j # k
          /\ CountsOf(seen[j], a) # {} /\ CommentaryOf(seen[j], a) = {}
          /\ CommentaryOf(seen[k], a) # {} /\ CountsOf(seen[k], a) = {} ) =>
        /\ Cardinality(RecordsOf(a)) = 1
        /\ \A n \in RecordsOf(a) :
              /\ \E t \in CommentaryOf(seen[k], a) : allPosts[n].text = t.text
              /\ \E c \in CountsOf(seen[j], a) :
                    /\ allPosts[n].numLikes = c.numLikes
                    /\ allPosts[n].numComments = c.numComments
                    /\ allPosts[n].numShares = c.numShares


\* the accumulator after the responses rs[k..], processed in that order from acc
RECURSIVE AfterResponses(_, _, _)
AfterResponses(acc, rs, k) ==
    IF k > Len(rs) THEN acc
    ELSE AfterResponses(OnResponseResult(acc, rs[k]), rs, k + 1)

\* the orders in which the responses seen could have arrived
Orders(n) == {f \in [1..n -> 1..n] : \A a, b \in 1..n : f[a] = f[b] => a = b}
Reordered(rs, f) == [k \in 1..Len(rs) |-> rs[f[k]]]

Records(posts) == {posts[k] : k \in 1..Len(posts)}

\* the record of identifier id in the first response of rs that yields one
FirstRecord(rs, id) ==
    LET k == CHOOSE n \in 1..Len(rs) :
                 /\ id \in Ids(OnResponseResult(<<>>, rs[n]))
                 /\ \A m \in 1..(n - 1) : id \notin Ids(OnResponseResult(<<>>, rs[m]))
    IN Get(OnResponseResult(<<>>, rs[k]), id)

\* C11 as stated: every order of processing the payloads of a run, a payload
\* processed twice included, ends with the same accumulator contents:
\* identifiers and record values.
C11_OrderIndependent ==
    /\ \A f \in Orders(Len(seen)) :
          Records(AfterResponses(<<>>, Reordered(seen, f), 1)) = Records(allPosts)
    /\ \A k \in 1..Len(seen) :
          AfterResponses(allPosts, <<seen[k]>>, 1) = allPosts

\* C11 amended: processing a payload again changes nothing and every order ends
\* with the same identifiers, each exactly once; the record kept for an
\* identifier is the one of the first payload processed that yields it, so
\* the record values depend on the order.
C11_IdsOrderIndependent ==
    /\ \A f \in Orders(Len(seen)) :
          LET acc == AfterResponses(<<>>, Reordered(seen, f), 1)
          IN /\ Ids(acc) = Ids(allPosts)
             /\ Len(acc) = Cardinality(Ids(acc))
             /\ \A id \in Ids(acc) : Get(acc, id) = FirstRecord(Reordered(seen, f), id)
    /\ \A k \in 1..Len(seen) :
          AfterResponses(allPosts, <<seen[k]>>, 1) = allPosts
    /\ \A id \in Ids(allPosts) : Get(allPosts, id) = FirstRecord(seen, id)

C11_Witness ==
    /\ Len(seen) = 2
    /\ Len(allPosts) = 1
    /\ allPosts[1].numLikes = 0
    /\ \E f \in Orders(2) :
          LET acc == AfterResponses(<<>>, Reordered(seen, f), 1)
          IN Len(acc) = 1 /\ acc[1].numLikes = 5


(***************************************************************************)
(* The save step of successive runs (SpecMerge), continued                 *)
(***************************************************************************)
\* C12: with a caller limit L set, the collection a run returns has at most L
\* records.
C12_ReturnedWithinLimit ==
    (postLimit # 0 /\ merges # <<>>) => Len(returned) <= postLimit

\* C13: after any sequence of runs of one key the persisted collection holds no
\* identifier twice.
C13_NoDuplicateIds ==
    merges # <<>> =>
        /\ file.state = "ok"
        /\ Len(file.posts) = Cardinality(Ids(file.posts))
        /\ \A k \in 1..Len(merges) :
              Len(merges[k].after) = Cardinality(Ids(merges[k].after))

C13_Witness ==
    /\ Len(merges) = 2
    /\ merges[1].before.state = "ok"
    /\ merges[1].new # merges[2].new
    /\ Ids(merges[1].new) \cap Ids(merges[2].new) # {}
    /\ Ids(merges[1].before.posts) \cap Ids(merges[1].new) # {}
    /\ Len(file.posts) = 2

\* C14: a collection file that exists but cannot be read does not fail the run:
\* the file is overwritten with exactly the run's records, which are returned.
C14_CorruptOverwritten ==
    \A k \in 1..Len(merges) :
        merges[k].before.state = "corrupt" =>
            /\ merges[k].after = merges[k].new
            /\ k = Len(merges) =>
                  /\ file = [state |-> "ok", posts |-> merges[k].new]
                  /\ returned = merges[k].new

C14_Witness ==
    /\ Len(merges) = 1
    /\ merges[1].before.state = "corrupt"
    /\ Len(merges[1].new) = 2
    /\ file = [state |-> "ok", posts |-> merges[1].new]
    /\ returned = merges[1].new

(***************************************************************************)
(* The synchronization run as a whole (SpecRun)                            *)
(***************************************************************************)
\* the run has done none of its collection work
NothingCollected ==
    /\ ~hooked' /\ visited' = 0
    /\ spc' = "idle" /\ heights' = <<>> /\ scrolls' = 0
    /\ seen' = <<>> /\ merges' = <<>> /\ file' = file

\* C15: when the username cannot be resolved (an options.profile that is no
\* profile URL, or no username detected from the session) the run raises,
\* having registered no hook, issued no navigation to the activity page, not
\* run autoScroll and left the collection file as it was.
C15_ResolutionFailureAborts ==
    [][/\ runError' = "username" =>
            (rpc' \in {"closing", "raised"} /\ NothingCollected)
       /\ (profile' = "invalid" /\ rpc' \notin {"idle", "login", "resolve"}) =>
            (runError' # "" /\ NothingCollected)]_vars

C15_Witness ==
    /\ rpc = "raised" /\ runError = "username" /\ profile = "invalid"
    /\ file.state = "ok" /\ ~hooked /\ visited = 0

\* C16: once the browser context has been launched, the run returns or
\* raises only after context.close() has been called, and it is called
\* exactly once.
C16_ClosedExactlyOnce ==
    /\ closes <= 1
    /\ (rpc \in {"returned", "raised"} /\ runError # "launch") => closes = 1
    /\ closes = 1 => rpc \in {"returned", "raised"}

C16_Witness ==
    /\ rpc = "raised" /\ runError = "write" /\ closes = 1

(***************************************************************************)
(* Initial authorization and the Credential Store (SpecAuth, SpecPoster)   *)
(***************************************************************************)
\* C17: however initial authorization ends (code received, OAuth error, the
\* port not bound, the present-URL action failing), the callback server is
\* not listening any more.
C17_ListenerClosedOnEveryExit ==
    /\ apc \in {"exchange", "userinfo", "returned", "raised", "aborted"} =>
            listener # "open"
    /\ urlShown = "failed" => listener # "open"

\* the stored record has every field but, possibly, the refresh token
FullyPopulated ==
    /\ store.rec.clientId # "" /\ store.rec.clientSecret # ""
    /\ store.rec.accessToken # 0 /\ store.rec.personId # ""
    /\ store.rec.expiresAt > 0

\* the step on which authenticate or a refresh fails
FailingStep ==
    \/ apc' = "raised" /\ apc # "raised"
    \/ apc' = "aborted" /\ apc # "aborted"
    \/ pc' = "thrown" /\ pc # "thrown"

\* C18: the credentials file is either absent or holds a fully populated
\* record, and a failing authenticate or a failing refresh leaves it as it
\* was.
C18_AbsentOrFullyPopulated ==
    /\ [](store.state = "absent" \/ (store.state = "ok" /\ FullyPopulated))
    /\ [][FailingStep => store' = store]_vars

C18_Witness ==
    /\ auths >= 2 /\ apc = "raised" /\ authError = "Could not retrieve person ID"
    /\ store.state = "ok" /\ FullyPopulated

\* C19: loadCredentials returns null for a file that is missing, that does
\* not parse, or that parses to something that is not a fully populated
\* record: getValidCredentials then fails with "No credentials found".
C19_LoadNoneWhenMalformed ==
    [][(pc = "getValid" /\ store.state # "ok") =>
            /\ pc' = "thrown"
            /\ result'.error.msg = "No credentials found"
            /\ creds' = creds]_vars

\* C20: a refresh of a record without refresh token fails without a request
\* to the token endpoint; a refresh answered without access token fails; in
\* both cases the file is left alone. Any other refresh saves the updated
\* record and returns it.
C20_RefreshOutcomes ==
    [][Len(refreshes') = Len(refreshes) + 1 =>
        LET c == IF pc = "getValid" THEN store.rec ELSE creds
            r == refreshes'[Len(refreshes')]
        IN  IF c.refreshToken = ""
            THEN /\ ~r.requested
                 /\ pc' = "thrown" /\ result'.kind = "throw"
                 /\ store' = store /\ issued' = issued
            ELSE /\ r.requested
                 /\ IF r.ok
                    THEN /\ pc' # "thrown"
                         /\ store' = [state |-> "ok", rec |-> creds']
                         /\ creds'.accessToken = issued' /\ issued' = issued + 1
                         /\ creds'.refreshToken \in {c.refreshToken, "rtNew"}
                         /\ creds'.expiresAt > now'
                         /\ creds'.clientId = c.clientId
                         /\ creds'.clientSecret = c.clientSecret
                         /\ creds'.personId = c.personId
                    ELSE /\ pc' = "thrown" /\ result'.kind = "throw"
                         /\ store' = store]_vars

C20_Witness ==
    /\ pc = "thrown" /\ refreshes # <<>>
    /\ ~refreshes[Len(refreshes)].requested
    /\ creds.refreshToken = "" /\ Len(calls) = 1 /\ store.state = "ok"

\* C24: within a run a record, once in the accumulator, stays there as it
\* is and where it is: later payloads, during pagination, the drain interval
\* or after it, only add records of identifiers not yet present.
C24_FirstSeenWins ==
    [][hooked =>
        /\ Len(allPosts') >= Len(allPosts)
        /\ \A k \in 1..Len(allPosts) : allPosts'[k] = allPosts[k]
        /\ \A j, k \in 1..Len(allPosts') :
                allPosts'[j].id = allPosts'[k].id => j = k]_vars

C24_Witness ==
    /\ rpc = "draining" /\ Len(seen) = 2
    /\ seen[1] = Response(TRUE, TRUE, TRUE, <<Counts1, Text1>>)
    /\ seen[2] = Response(TRUE, TRUE, TRUE, <<Text1b>>)
    /\ Len(allPosts) = 1
    /\ allPosts[1].text = "hello" /\ allPosts[1].numLikes = 5

\* C25: the run's records are cut to the limit in the step that ends the
\* drain interval, after autoScroll has returned, and never again: they are
\* the first min(L, size) records of the accumulator in insertion order (all
\* of them without a limit), whatever arrives later.
C25_TruncateAfterDrain ==
    [][/\ (newPosts' # newPosts \/ merges' # merges) =>
            /\ rpc = "draining" /\ spc = "done"
            /\ Len(newPosts') =
                  IF postLimit # 0 /\ postLimit < Len(allPosts)
                  THEN postLimit ELSE Len(allPosts)
            /\ \A k \in 1..Len(newPosts') : newPosts'[k] = allPosts[k]
       /\ (rpc = "draining" /\ rpc' # "draining") =>
            /\ Len(newPosts') =
                  IF postLimit # 0 /\ postLimit < Len(allPosts)
                  THEN postLimit ELSE Len(allPosts)
            /\ \A k \in 1..Len(newPosts') : newPosts'[k] = allPosts[k]
       /\ rpc \in {"closing", "returned", "raised"} =>
            (newPosts' = newPosts /\ merges' = merges)]_vars

C25_Witness ==
    /\ rpc = "closing" /\ runError = "" /\ postLimit = 1
    /\ exitReason = "limit"
    /\ Len(allPosts) = 2 /\ newPosts = <<allPosts[1]>>
    /\ allPosts[1].id = "urn:li:activity:2"

(***************************************************************************)
(* The Record Extractor on its own (SpecExtract)                           *)
(***************************************************************************)
\* C21: a payload without any commentary item (no `included`, an `included`
\* that is no array, only counts items or items with empty text) makes
\* extractPosts return the empty sequence, and extractPosts does not throw.
C21_NoCommentaryNoRecords ==
    ( /\ epc \in {"returned", "raised"}
      /\ \/ ~payload.isArray
         \/ \A k \in 1..Len(payload.included) : payload.included[k].text = "" ) =>
    (epc = "returned" /\ extracted = <<>>)

C21_Witness ==
    /\ epc = "returned" /\ payload.isArray /\ Len(payload.included) = 3
    /\ payload.included[1] = Counts2 /\ payload.included[2] = NoText
    /\ payload.included[3] = Counts1
    /\ extracted = <<>>

\* the entity reference of an item and what the claim expects of it
RefOf(it) == IF it.preDashEntityUrn # "" THEN it.preDashEntityUrn ELSE it.entityUrn
Matching(it) == it.text # "" /\ ActivityMatch(RefOf(it)) # ""

\* the counters of the payload's counts item of an activity, zeros without one
ExpectedCounts(included, id) ==
    LET cs == {k \in 1..Len(included) :
                  included[k].type = CountsType /\ included[k].urn = id}
    IN  IF cs = {} THEN [numLikes |-> 0, numComments |-> 0, numShares |-> 0]
        ELSE LET c == included[CHOOSE k \in cs : \A j \in cs : j <= k]
             IN [numLikes |-> c.numLikes, numComments |-> c.numComments,
                 numShares |-> c.numShares]

ExpectedRecord(included, it) ==
    LET id == "urn:li:activity:" \o ActivityMatch(RefOf(it))
        counts == ExpectedCounts(included, id)
    IN [id |-> id, text |-> it.text, publishedAt |-> it.subDescription,
        numLikes |-> counts.numLikes, numComments |-> counts.numComments,
        numShares |-> counts.numShares,
        url |-> "https://www.linkedin.com/feed/update/" \o id \o "/"]

\* one record per matching commentary item among the first n items, in
\* item order, the counters looked up in the whole payload
ExpectedRecords(included, n) ==
    LET sel == SelectSeq(SubSeq(included, 1, n), Matching)
    IN  [k \in 1..Len(sel) |-> ExpectedRecord(included, sel[k])]

\* the items before the first commentary item whose reference is no string
BeforeFirstNonString(included) ==
    LET bad == {k \in 1..Len(included) :
                   included[k].text # "" /\ RefOf(included[k]) = NotAString}
    IN  IF bad = {} THEN Len(included)
        ELSE (CHOOSE k \in bad : \A j \in bad : k <= j) - 1

RefreshStep == Len(refreshes') = Len(refreshes) + 1
Given == IF pc = "getValid" THEN store.rec ELSE creds
Latest == refreshes'[Len(refreshes')]

\* C27: a successful refresh leaves clientId, clientSecret and personId as
\* they were, takes the access token of the response, takes its refresh
\* token when it has one and keeps the old one otherwise, sets the expiry
\* from the clock and the lifetime, and returns the record it has saved.
C27_RefreshFrame ==
    [][(RefreshStep /\ Latest.ok) =>
        /\ creds'.clientId = Given.clientId
        /\ creds'.clientSecret = Given.clientSecret
        /\ creds'.personId = Given.personId
        /\ creds'.accessToken = Latest.response.access_token
        /\ creds'.refreshToken = IF Latest.response.refresh_token = ""
                                 THEN Given.refreshToken
                                 ELSE Latest.response.refresh_token
        /\ creds'.expiresAt = now' + (IF Latest.response.expires_in = 0 THEN 5184000
                                      ELSE Latest.response.expires_in)
        /\ store' = [state |-> "ok", rec |-> creds']]_vars

C27_Witness ==
    /\ pc = "call2" /\ Len(refreshes) = 1
    /\ refreshes[1].ok /\ refreshes[1].response.refresh_token = ""
    /\ creds.refreshToken = "rt0" /\ creds.accessToken = refreshes[1].response.access_token
    /\ store.rec = creds

\* C28: one operation makes at most two refreshes, at most one by
\* getValidCredentials, before the first call, and at most one forced, after
\* a 401. When getValidCredentials has refreshed and the first call gets a
\* 401, the forced refresh is made as well, and a retried call carries the
\* access token of that second refresh.
C28_AtMostTwoRefreshes ==
    /\ Len(refreshes) <= 2
    /\ Cardinality(Proactive) <= 1 /\ Cardinality(Forced) <= 1
    /\ \A k \in Proactive : k = 1
    /\ Forced # {} => (Len(calls) >= 1 /\ calls[1].status = 401)
    /\ (Proactive # {} /\ Len(calls) >= 1) =>
            (refreshes[1].ok /\ calls[1].token = issued - Cardinality({k \in Forced : refreshes[k].ok}))
    /\ ( /\ Proactive # {} /\ Len(calls) >= 1 /\ calls[1].status = 401
         /\ pc # "refresh" ) =>
            /\ Len(refreshes) = 2 /\ refreshes[2].why = "forced"
            /\ Len(calls) = 2 =>
                    /\ refreshes[2].ok
                    /\ calls[2].token = refreshes[2].response.access_token
                    /\ calls[2].token # calls[1].token

C28_Witness ==
    /\ pc = "done" /\ Len(calls) = 2 /\ Len(refreshes) = 2
    /\ refreshes[1].why = "proactive" /\ refreshes[2].why = "forced"
    /\ calls[1].status = 401
    /\ calls[2].token = refreshes[2].response.access_token
    /\ calls[2].token = calls[1].token + 1

\* C29: when the first call gets a 401 and the forced refresh cannot be made
\* (no refresh token) or is answered without access token, the operation
\* throws the error of the refresh; one call has been made, none follows,
\* and the credentials file is as it was.
C29_ForcedRefreshFailure ==
    /\ [][(RefreshStep /\ pc = "refresh"
            /\ (creds.refreshToken = "" \/ Latest.response.access_token = 0)) =>
            /\ pc' = "thrown"
            /\ result'.kind = "throw"
            /\ result'.error.msg = IF creds.refreshToken = ""
                                   THEN "No refresh token available"
                                   ELSE "Token refresh failed"
            /\ Len(calls') = 1 /\ calls'[1].status = 401
            /\ store' = store]_vars
    /\ []((pc = "thrown" /\ Forced # {}) =>
            (Len(calls) = 1 /\ result.kind = "throw"))
    /\ [][pc = "thrown" => (calls' = calls \/ calls' = <<>>)]_vars

C29_Witness ==
    /\ pc = "thrown" /\ Len(refreshes) = 1 /\ refreshes[1].why = "forced"
    /\ refreshes[1].requested /\ refreshes[1].response.access_token = 0
    /\ Len(calls) = 1 /\ calls[1].status = 401
    /\ result.error.msg = "Token refresh failed"

\* the token response behind the record this step writes
Written ==
    IF apc = "userinfo" THEN authTokens ELSE refreshes'[Len(refreshes')].response

\* C30 as claimed: every record written by authenticate or by a refresh
\* expires at least one day after the clock value of the write, so that
\* getValidCredentials at that clock value does not refresh it.
C30_FreshForADay ==
    [][store' # store => store'.rec.expiresAt >= now' + 86400]_vars

\* C30: a record written at clock value t expires at t plus the lifetime of
\* the token response (5184000 when it gives none), which is one day or
\* more away only if the lifetime is; getValidCredentials refreshes a stored
\* record exactly when its expiry is less than 86400 s away, so it refreshes
\* again at once a record written with a shorter lifetime.
C30_ExpiryIsClockPlusLifetime ==
    [][/\ store' # store =>
            store'.rec.expiresAt =
                now' + (IF Written.expires_in = 0 THEN 5184000 ELSE Written.expires_in)
       /\ (pc = "getValid" /\ store.state = "ok") =>
            (RefreshStep <=> store.rec.expiresAt - now < 86400)]_vars

C30_Witness ==
    /\ apc = "returned" /\ authTokens.expires_in = 3600
    /\ now = Now0
    /\ Len(refreshes) = 1 /\ refreshes[1].why = "proactive" /\ refreshes[1].requested

====
